---- MODULE Spec2Model ----
(***************************************************************************)
(* AutoConfigParser (auto_config_parser/auto_config_parser.py): a          *)
(* configparser.ConfigParser whose store is re-read from an INI file by a  *)
(* watchdog observer thread (on_modified) and by every get().              *)
(*                                                                         *)
(* The model has one AutoConfigParser object, caller threads that invoke   *)
(* its methods, the observer thread, and an environment that edits the     *)
(* configured file and retargets symlinks.  Steps of one thread between    *)
(* which no other thread can observe a difference are one action.          *)
(*                                                                         *)
(* Specifications:                                                         *)
(*   Spec      the object after __init__, its callers, the observer thread *)
(*             and an environment that edits in place and retargets;       *)
(*   NewSpec   __init__ as a step, then the environment (which also        *)
(*             removes and replaces the file and changes other entries)    *)
(*             and the observer thread, with no caller;                    *)
(*   CloseSpec get(), close() and the observer thread under fair           *)
(*             scheduling;                                                 *)
(*   FullSpec  every step of the model together.                           *)
(***************************************************************************)
EXTENDS Integers, Sequences, FiniteSets, TLC

\* ------------------------------------------------------------------ bounds
MaxOps == 2      \* method calls made by the caller threads, in total
MaxEnv == 2      \* system calls the environment makes on the file system, in total

\* ------------------------------------------------------------- vocabulary
Threads == {"t1", "t2"}
WatcherThread == "watcher"
NoOne == "none"

Files == {"A", "B"}          \* real (symlink-free) files: the one the path
                             \* names at construction, and another one
LinkEntry == "L"             \* the directory entry that is a symlink
PathKinds == {"plain", "filelink", "dirlink"}
Values == {"v1", "v2"}
Section == "s"
Option == "k"
Unset == "_UNSET"            \* configparser._UNSET: no fallback was passed
Fallbacks == {Unset, "None", "fb"}
DirModes == {"writable", "readonly", "missing"}   \* the parent directory
Sibling == "O"               \* another entry of the watched directory

VARIABLES
    parentDir,    \* the condition of the directory the configured file is in
    raised,       \* what __init__ raised: "none" or "OSError"
    pathKind,     \* what the constructor's path is: a plain file, a symlink to
                  \* a file, or a file below a symlinked directory
    link,         \* the real file the constructor's path resolves to now
    disk,         \* disk[f]: text of real file f, a sequence of lines
    editing,      \* the file an external writer has truncated and not yet written
    envLeft,      \* environment operations left
    file_path,    \* self._file_path
    watch,        \* the directory the observer was scheduled on
    store,        \* the ConfigParser's sections: section -> option -> value
    lock,         \* owner of self._lock
    observer,     \* self._observer: "obs" or "none"
    stopped,      \* the observer's stop event is set
    stopCount,    \* calls of self._observer.stop() made so far
    events,       \* the observer's event queue
    wpc,          \* where the observer thread is
    pc,           \* pc[t]: where caller thread t is
    ret,          \* the call that returned last: its thread, method and result
    fp,           \* fp[t]: what write() has written to the fp of t's current call
    opsLeft,      \* method calls left
    steady,       \* steady[t]: no file-system change by anyone else since
                  \* t's current call began
    unsaved       \* the value of the last set() that no file change and no
                  \* watcher reload has superseded yet

vars == <<parentDir, raised, pathKind, link, disk, editing, envLeft, file_path, watch, store, lock,
          observer, stopped, stopCount, events, wpc, pc, ret, fp, opsLeft,
          steady, unsaved>>

ctorVars == <<parentDir, raised, pathKind>>
fsVars == <<ctorVars, link, disk, editing, envLeft>>
objVars == <<file_path, watch, store, lock, observer, stopped, stopCount>>

\* ------------------------------------------------ the INI text and the store
Hdr(s) == <<"sec", s>>
Opt(k, v) == <<"opt", k, v>>
Blank == <<"blank">>

\* the text an external writer puts in a file: "[s]\nk = v\n"
TextOf(v) == <<Hdr(Section), Opt(Option, v)>>
ExtTexts == {TextOf(v) : v \in Values}
EmptyText == <<>>
NoFile == <<<<"ENOENT">>>>     \* what disk[f] is where no file f exists

EmptyMap == [x \in {} |-> x]
EmptyStore == EmptyMap

Put(m, k, v) == [x \in DOMAIN m \cup {k} |-> IF x = k THEN v ELSE m[x]]

\* RawConfigParser._read: a header opens (or creates) a section, an option
\* line sets the option in the section last opened, blank lines are skipped.
RECURSIVE ParseLines(_, _, _)
ParseLines(lines, cur, st) ==
    IF lines = <<>> THEN st
    ELSE LET l == Head(lines) IN
         IF l[1] = "blank" THEN ParseLines(Tail(lines), cur, st)
         ELSE IF l[1] = "sec"
              THEN ParseLines(Tail(lines), l[2],
                              IF l[2] \in DOMAIN st THEN st ELSE Put(st, l[2], EmptyMap))
              ELSE ParseLines(Tail(lines), cur,
                              [st EXCEPT ![cur] = Put(@, l[2], l[3])])

\* super().read(self._file_path): parse the file into the present sections.
\* The parser adds the sections one by one; the model installs the parsed
\* file in one step, so the store a reader can see in between is the cleared
\* one only.  The DEFAULT section, which clear() leaves alone, is not modelled.
\* read() passes over a file it cannot open.
ReadFile(st, text) == IF text = NoFile THEN st ELSE ParseLines(text, NoOne, st)

\* RawConfigParser.write: per section a header, its options, a blank line
RECURSIVE OptLines(_, _)
OptLines(m, ks) ==
    IF ks = {} THEN <<>>
    ELSE LET k == CHOOSE x \in ks : TRUE
         IN <<Opt(k, m[k])>> \o OptLines(m, ks \ {k})

RECURSIVE SectionLines(_, _)
SectionLines(st, ss) ==
    IF ss = {} THEN <<>>
    ELSE LET s == CHOOSE x \in ss : TRUE
         IN <<Hdr(s)>> \o OptLines(st[s], DOMAIN st[s]) \o <<Blank>>
            \o SectionLines(st, ss \ {s})

Serialize(st) == SectionLines(st, DOMAIN st)

\* RawConfigParser.get without a fallback
Lookup(st, s, k) ==
    IF s \notin DOMAIN st THEN "NoSectionError"
    ELSE IF k \notin DOMAIN st[s] THEN "NoOptionError"
    ELSE st[s][k]

LookupErrors == {"NoSectionError", "NoOptionError"}

\* get() that takes a fallback of None for no fallback
ParserGetNoneIsUnset(st, s, k, fallback) ==
    IF Lookup(st, s, k) \in LookupErrors /\ fallback \notin {Unset, "None"}
    THEN fallback ELSE Lookup(st, s, k)

\* RawConfigParser.get(section, option, fallback=...): the error is raised
\* only where no fallback was passed
ParserGet(st, s, k, fallback) ==
    IF Lookup(st, s, k) \in LookupErrors /\ fallback # Unset
    THEN fallback ELSE Lookup(st, s, k)

\* ----------------------------------------------------- paths and events
\* the directory that holds real file f
ParentOf(kind, f) ==
    IF kind = "dirlink" THEN (IF f = "A" THEN "D1" ELSE "D2") ELSE "T"

\* the directory that holds a directory entry (the symlink L lives beside
\* the files it points to; a symlinked directory lives outside D1 and D2)
DirOfEntry(kind, e) ==
    IF e = LinkEntry THEN (IF kind = "filelink" THEN "T" ELSE "tmp")
    ELSE ParentOf(kind, e)

\* Path(src_path).resolve() at the time of the call
Resolve(e) == IF e = LinkEntry THEN link ELSE e

Event(kind, e) == [kind |-> kind, src |-> e, is_directory |-> FALSE]

\* DirModifiedEvent of directory d
DirEvent(d) == [kind |-> "modified", src |-> d, is_directory |-> TRUE]

\* the observer's queue skips an event equal to the one queued last
Enqueue(q, e) == IF q # <<>> /\ q[Len(q)] = e THEN q ELSE Append(q, e)

\* the emitter reports entries of the watched directory while the observer runs
Observed(e) == ~stopped /\ DirOfEntry(pathKind, e.src) = watch

Emitted(e) == IF Observed(e) THEN Enqueue(events, e) ELSE events

\* on_modified that reloads for any entry
RelevantAnyEntry(e) == e.kind = "modified"

\* _ConfigFileChangeHandler.on_modified's condition
Relevant(e) ==
    /\ e.kind = "modified"
    /\ ~e.is_directory
    /\ Resolve(e.src) = file_path

\* ------------------------------------------------------------------ Init
\* touch() that creates nothing
TouchedNot(text, mode) == text

\* if not self._file_path.exists(): try: touch() except Exception: pass
\* The file is created empty where the directory allows it; where it does
\* not, the exception is swallowed and there is still no file.
Touched(text, mode) ==
    IF text = NoFile /\ mode = "writable" THEN EmptyText ELSE text

\* self._observer.start(): the emitter cannot watch a directory that does
\* not exist, and start() raises
StartRaises(mode) == IF mode = "missing" THEN "OSError" ELSE "none"

\* AutoConfigParser.__init__: resolve the path, create the file if missing,
\* load it, schedule the observer on the resolved parent and start it.
\* The file either holds an option or does not exist; a parent directory
\* that holds the file is taken to be writable, and one that is not writable
\* is reached by a path without symlinks.
Init ==
    /\ pathKind \in PathKinds
    /\ link = "A"
    /\ \E a \in {TextOf("v1"), NoFile}, mode \in DirModes :
          /\ (a # NoFile) => (mode = "writable")
          /\ (mode # "writable") => (pathKind = "plain")
          /\ parentDir = mode
          /\ disk = [f \in Files |-> IF f = "A" THEN Touched(a, mode)
                                    ELSE IF mode = "missing" THEN NoFile
                                    ELSE TextOf("v2")]
          /\ store = ReadFile(EmptyStore, Touched(a, mode))
          /\ raised = StartRaises(mode)
          /\ wpc = IF StartRaises(mode) = "none" THEN "idle" ELSE "unstarted"
    /\ editing = NoOne
    /\ envLeft = MaxEnv
    /\ file_path = "A"
    /\ watch = ParentOf(pathKind, "A")
    /\ lock = NoOne
    /\ observer = "obs"
    /\ stopped = FALSE
    /\ stopCount = 0
    /\ events = <<>>
    /\ pc = [t \in Threads |-> "idle"]
    /\ ret = [thread |-> NoOne, op |-> "none", val |-> "none", fallback |-> Unset]
    /\ fp = [t \in Threads |-> EmptyText]
    /\ opsLeft = MaxOps
    /\ steady = [t \in Threads |-> FALSE]
    /\ unsaved = NoOne

\* the state before __init__ runs: no object yet, the path names file A,
\* which holds an option or does not exist
Before ==
    /\ pathKind \in PathKinds
    /\ link = "A"
    /\ \E a \in {TextOf("v1"), NoFile}, mode \in DirModes :
          /\ (a # NoFile) => (mode = "writable")
          /\ (mode # "writable") => (pathKind = "plain")
          /\ parentDir = mode
          /\ disk = [f \in Files |-> IF f = "A" THEN a
                                    ELSE IF mode = "missing" THEN NoFile
                                    ELSE TextOf("v2")]
    /\ store = EmptyStore
    /\ raised = "none"
    /\ wpc = "unstarted"
    /\ editing = NoOne
    /\ envLeft = MaxEnv
    /\ file_path = NoOne
    /\ watch = NoOne
    /\ lock = NoOne
    /\ observer = NoOne
    /\ stopped = FALSE
    /\ stopCount = 0
    /\ events = <<>>
    /\ pc = [t \in Threads |-> "idle"]
    /\ ret = [thread |-> NoOne, op |-> "none", val |-> "none", fallback |-> Unset]
    /\ fp = [t \in Threads |-> EmptyText]
    /\ opsLeft = MaxOps
    /\ steady = [t \in Threads |-> FALSE]
    /\ unsaved = NoOne

\* AutoConfigParser.__init__ as a step: Init is what it leaves
New ==
    /\ file_path = NoOne
    /\ file_path' = link
    /\ disk' = [disk EXCEPT ![link] = Touched(disk[link], parentDir)]
    /\ store' = ReadFile(EmptyStore, Touched(disk[link], parentDir))
    /\ watch' = ParentOf(pathKind, link)
    /\ observer' = "obs"
    /\ raised' = StartRaises(parentDir)
    /\ wpc' = IF StartRaises(parentDir) = "none" THEN "idle" ELSE "unstarted"
    /\ UNCHANGED <<parentDir, pathKind, link, editing, envLeft, lock, stopped,
                   stopCount, events, pc, ret, fp, opsLeft, steady, unsaved>>

\* a change of the file system made by `who` ends the steadiness of the
\* calls of everyone else
Disturb(who) == [t \in Threads |-> steady[t] /\ t = who]

\* ----------------------------------------------------------- environment
\* the environment works in a directory it can write to, and the model
\* follows it from the construction of the object on
EnvCan == parentDir = "writable" /\ file_path # NoOne /\ envLeft > 0

\* what open(f, "w") makes the emitter report: the file is created or truncated
OpenEvent(f) == Event(IF disk[f] = NoFile THEN "created" ELSE "modified", f)

\* Path.write_text on the configured path, first half: open(..., "w")
\* truncates (or creates) the file the path resolves to
ExtTruncate(f) ==
    /\ editing = NoOne /\ EnvCan
    /\ f = link
    /\ disk' = [disk EXCEPT ![f] = EmptyText]
    /\ editing' = f
    /\ envLeft' = envLeft - 1
    /\ events' = Emitted(OpenEvent(f))
    /\ steady' = Disturb(NoOne)
    /\ unsaved' = NoOne
    /\ UNCHANGED <<ctorVars, link, objVars, wpc, pc, ret, fp, opsLeft>>

\* Path.write_text, second half: the text is written and the file closed
ExtWrite(f, txt) ==
    /\ editing = f /\ EnvCan
    /\ disk' = [disk EXCEPT ![f] = txt]
    /\ editing' = NoOne
    /\ envLeft' = envLeft - 1
    /\ events' = Emitted(Event("modified", f))
    /\ steady' = Disturb(NoOne)
    /\ unsaved' = NoOne
    /\ UNCHANGED <<ctorVars, link, objVars, wpc, pc, ret, fp, opsLeft>>

\* os.remove of the file the configured path resolves to
ExtDelete(f) ==
    /\ editing = NoOne /\ EnvCan
    /\ f = link /\ disk[f] # NoFile
    /\ disk' = [disk EXCEPT ![f] = NoFile]
    /\ envLeft' = envLeft - 1
    /\ events' = Emitted(Event("deleted", f))
    /\ steady' = Disturb(NoOne)
    /\ unsaved' = NoOne
    /\ UNCHANGED <<ctorVars, link, editing, objVars, wpc, pc, ret, fp, opsLeft>>

\* os.replace(temporary, f): a file written beside f is renamed over it.
\* The emitter reports a moved event (src the temporary, dest f); the model
\* names the event by the entry it ends at.
ExtReplace(f, txt) ==
    /\ editing = NoOne /\ EnvCan
    /\ f = link
    /\ disk' = [disk EXCEPT ![f] = txt]
    /\ envLeft' = envLeft - 1
    /\ events' = Emitted(Event("moved", f))
    /\ steady' = Disturb(NoOne)
    /\ unsaved' = NoOne
    /\ UNCHANGED <<ctorVars, link, editing, objVars, wpc, pc, ret, fp, opsLeft>>

\* the events of the watched directory that are not about the configured
\* file: a sibling file is modified, the directory itself is modified
OtherEvents == {Event("modified", Sibling), DirEvent(watch)}

\* something else happens in the watched directory
ExtOther(e) ==
    /\ EnvCan
    /\ envLeft' = envLeft - 1
    /\ events' = IF stopped THEN events ELSE Enqueue(events, e)
    /\ UNCHANGED <<ctorVars, link, disk, editing, objVars, wpc, pc, ret, fp,
                   opsLeft, steady, unsaved>>

\* symlink.unlink()
Unlink ==
    /\ pathKind # "plain" /\ link # NoOne /\ editing = NoOne /\ EnvCan
    /\ link' = NoOne
    /\ envLeft' = envLeft - 1
    /\ events' = Emitted(Event("deleted", LinkEntry))
    /\ steady' = Disturb(NoOne)
    /\ UNCHANGED <<ctorVars, disk, editing, objVars, wpc, pc, ret, fp, opsLeft, unsaved>>

\* symlink.symlink_to(f)
Symlink(f) ==
    /\ link = NoOne /\ EnvCan
    /\ link' = f
    /\ envLeft' = envLeft - 1
    /\ events' = Emitted(Event("created", LinkEntry))
    /\ steady' = Disturb(NoOne)
    /\ UNCHANGED <<ctorVars, disk, editing, objVars, wpc, pc, ret, fp,
                   opsLeft, unsaved>>

\* ------------------------------------------------------- observer thread
\* the observer takes the next event and dispatches it to the handler;
\* on_modified goes on to _reload_from_disk only for a relevant event
WDispatch ==
    /\ wpc = "idle" /\ ~stopped /\ events # <<>>
    /\ events' = Tail(events)
    /\ wpc' = IF Relevant(Head(events)) THEN "w_lock" ELSE "idle"
    /\ UNCHANGED <<fsVars, objVars, pc, ret, fp, opsLeft, steady, unsaved>>

\* _reload_from_disk in the observer thread: with self._lock: super().clear()
WClear ==
    /\ wpc = "w_lock" /\ lock = NoOne
    /\ lock' = WatcherThread
    /\ store' = EmptyStore
    /\ wpc' = "w_read"
    /\ unsaved' = NoOne
    /\ UNCHANGED <<fsVars, file_path, watch, observer, stopped, stopCount, events,
                   pc, ret, fp, opsLeft, steady>>

\* a reload that rewrites the file it has read (and so signals itself)
WReadTouching ==
    /\ wpc = "w_read"
    /\ store' = ReadFile(store, disk[file_path])
    /\ lock' = NoOne
    /\ wpc' = "idle"
    /\ events' = Emitted(Event("modified", file_path))
    /\ UNCHANGED <<fsVars, file_path, watch, observer, stopped, stopCount,
                   pc, ret, fp, opsLeft, steady, unsaved>>

\* ... super().read(self._file_path); the lock is released
WRead ==
    /\ wpc = "w_read"
    /\ store' = ReadFile(store, disk[file_path])
    /\ lock' = NoOne
    /\ wpc' = "idle"
    /\ UNCHANGED <<fsVars, file_path, watch, observer, stopped, stopCount, events,
                   pc, ret, fp, opsLeft, steady, unsaved>>

\* the observer's loop ends once the stop event is set; its queue goes with it
WExit ==
    /\ wpc = "idle" /\ stopped
    /\ wpc' = "exited"
    /\ events' = <<>>
    /\ UNCHANGED <<fsVars, objVars, pc, ret, fp, opsLeft, steady, unsaved>>

\* --------------------------------------------------------- caller threads
\* the callers are interchangeable: t1 is the one that makes the first call
Call(t) ==
    /\ raised = "none"
    /\ pc[t] = "idle" /\ opsLeft > 0
    /\ (t = "t2") => (opsLeft < MaxOps)
    /\ opsLeft' = opsLeft - 1

Returned(t, op, v) == [thread |-> t, op |-> op, val |-> v, fallback |-> Unset]

Return(t, op, v) ==
    /\ ret' = Returned(t, op, v)
    /\ steady' = [steady EXCEPT ![t] = FALSE]

\* get() whose reload clears the store without taking the lock
GetClearUnlocked(t) ==
    /\ Call(t)
    /\ store' = EmptyStore
    /\ pc' = [pc EXCEPT ![t] = "g_read"]
    /\ steady' = [steady EXCEPT ![t] = (editing = NoOne /\ link # NoOne)]
    /\ UNCHANGED <<fsVars, file_path, watch, lock, observer, stopped, stopCount,
                   events, wpc, ret, fp, unsaved>>

\* get(): self._reload_from_disk() takes the lock and clears the store
GetClear(t) ==
    /\ Call(t)
    /\ lock = NoOne
    /\ lock' = t
    /\ store' = EmptyStore
    /\ pc' = [pc EXCEPT ![t] = "g_read"]
    /\ steady' = [steady EXCEPT ![t] = (editing = NoOne /\ link # NoOne)]
    /\ UNCHANGED <<fsVars, file_path, watch, observer, stopped, stopCount, events,
                   wpc, ret, fp, unsaved>>

\* get() that releases the lock without reading the file again
GetReadSkipped(t) ==
    /\ pc[t] = "g_read"
    /\ lock' = NoOne
    /\ pc' = [pc EXCEPT ![t] = "g_get"]
    /\ UNCHANGED <<fsVars, file_path, watch, store, observer, stopped, stopCount,
                   events, wpc, ret, fp, opsLeft, steady, unsaved>>

\* ... reads the file and releases the lock
GetRead(t) ==
    /\ pc[t] = "g_read"
    /\ store' = ReadFile(store, disk[file_path])
    /\ lock' = NoOne
    /\ pc' = [pc EXCEPT ![t] = "g_get"]
    /\ UNCHANGED <<fsVars, file_path, watch, observer, stopped, stopCount, events,
                   wpc, ret, fp, opsLeft, steady, unsaved>>

\* get() that refuses to answer once close() has run
GetReturnClosed(t) ==
    /\ pc[t] = "g_get"
    /\ \E fallback \in Fallbacks :
          ret' = [thread |-> t, op |-> "get", fallback |-> fallback,
                  val |-> IF observer = NoOne THEN "ClosedError"
                          ELSE ParserGet(store, Section, Option, fallback)]
    /\ steady' = [steady EXCEPT ![t] = FALSE]
    /\ pc' = [pc EXCEPT ![t] = "idle"]
    /\ UNCHANGED <<fsVars, objVars, events, wpc, fp, opsLeft, unsaved>>

\* ... and get() returns super().get(section, option, *args, **kwargs),
\* outside the lock.  The fallback the caller passed is not looked at before
\* this line, so the model draws it here.
GetReturn(t) ==
    /\ pc[t] = "g_get"
    /\ \E fallback \in Fallbacks :
          ret' = [thread |-> t, op |-> "get", fallback |-> fallback,
                  val |-> ParserGet(store, Section, Option, fallback)]
    /\ steady' = [steady EXCEPT ![t] = FALSE]
    /\ pc' = [pc EXCEPT ![t] = "idle"]
    /\ UNCHANGED <<fsVars, objVars, events, wpc, fp, opsLeft, unsaved>>

\* set(section, option, v): inherited, changes the store only
SetOption(t, v) ==
    /\ Call(t)
    /\ IF Section \in DOMAIN store
       THEN /\ store' = [store EXCEPT ![Section] = Put(@, Option, v)]
            /\ unsaved' = v
            /\ Return(t, "set", "None")
       ELSE /\ Return(t, "set", "NoSectionError")
            /\ UNCHANGED <<store, unsaved>>
    /\ UNCHANGED <<fsVars, file_path, watch, lock, observer, stopped, stopCount,
                   events, wpc, pc, fp>>

\* write(fp): super().write(fp) serializes the store to the caller's fp
WriteFp(t) ==
    /\ Call(t)
    /\ fp' = [fp EXCEPT ![t] = Serialize(store)]
    /\ pc' = [pc EXCEPT ![t] = "w_open"]
    /\ steady' = [steady EXCEPT ![t] = (editing = NoOne /\ link # NoOne)]
    /\ UNCHANGED <<fsVars, objVars, events, wpc, ret, unsaved>>

\* open(self._file_path, "w") works on a file that exists, and creates one
\* in a directory that is writable
CanOpen == disk[file_path] # NoFile \/ parentDir = "writable"

\* ... open(self._file_path, "w") raises: write() ends with the error,
\* after super().write(fp); the caller keeps what fp was given
WriteOpenFails(t) ==
    /\ pc[t] = "w_open"
    /\ ~CanOpen
    /\ pc' = [pc EXCEPT ![t] = "idle"]
    /\ Return(t, "write", "OSError")
    /\ UNCHANGED <<fsVars, objVars, events, wpc, fp, opsLeft, unsaved>>

\* ... open(self._file_path, "w") truncates (or creates) the configured file
WriteOpen(t) ==
    /\ pc[t] = "w_open"
    /\ CanOpen
    /\ disk' = [disk EXCEPT ![file_path] = EmptyText]
    /\ events' = Emitted(OpenEvent(file_path))
    /\ pc' = [pc EXCEPT ![t] = "w_dump"]
    /\ steady' = Disturb(t)
    /\ unsaved' = NoOne
    /\ UNCHANGED <<ctorVars, link, editing, envLeft, objVars, wpc, ret, fp, opsLeft>>

\* ... super().write(f) serializes the store as it is now; f is closed and
\* write() returns
WriteDump(t) ==
    /\ pc[t] = "w_dump"
    /\ disk' = [disk EXCEPT ![file_path] = Serialize(store)]
    /\ events' = Emitted(Event("modified", file_path))
    /\ pc' = [pc EXCEPT ![t] = "idle"]
    /\ ret' = Returned(t, "write", "None")
    /\ fp' = [fp EXCEPT ![t] = EmptyText]
    /\ steady' = Disturb(NoOne)
    /\ unsaved' = NoOne
    /\ UNCHANGED <<ctorVars, link, editing, envLeft, objVars, wpc, opsLeft>>

\* ... super().write(f) raises (the device is full): f is closed with nothing
\* written, and write() ends with the error
WriteDumpFails(t) ==
    /\ pc[t] = "w_dump"
    /\ pc' = [pc EXCEPT ![t] = "idle"]
    /\ ret' = Returned(t, "write", "OSError")
    /\ steady' = Disturb(NoOne)
    /\ UNCHANGED <<fsVars, objVars, events, wpc, fp, opsLeft, unsaved>>

\* what close() and __exit__ return
CloseResult(op) == IF op = "exit" THEN "False" ELSE "None"

\* where a caller is inside close(): holding the lock, and joining
HeldPc(op) == IF op = "exit" THEN "x_held" ELSE "c_held"
JoinPc(op) == IF op = "exit" THEN "x_join" ELSE "c_join"

\* close(), or __exit__ (which calls close() and returns False):
\* with self._lock:
CloseEnter(t, op) ==
    /\ Call(t)
    /\ lock = NoOne
    /\ lock' = t
    /\ pc' = [pc EXCEPT ![t] = HeldPc(op)]
    /\ UNCHANGED <<fsVars, file_path, watch, store, observer, stopped, stopCount,
                   events, wpc, ret, fp, steady, unsaved>>

\* ... if getattr(self, "_observer", None) is not None: self._observer.stop()
CloseStop(t, op) ==
    /\ pc[t] = HeldPc(op)
    /\ observer # NoOne
    /\ stopped' = TRUE
    /\ stopCount' = stopCount + 1
    /\ pc' = [pc EXCEPT ![t] = JoinPc(op)]
    /\ UNCHANGED <<fsVars, file_path, watch, store, lock, observer, events, wpc,
                   ret, fp, opsLeft, steady, unsaved>>

\* ... else: nothing to stop; the lock is released and the call returns
CloseSkip(t, op) ==
    /\ pc[t] = HeldPc(op)
    /\ observer = NoOne
    /\ lock' = NoOne
    /\ pc' = [pc EXCEPT ![t] = "idle"]
    /\ Return(t, op, CloseResult(op))
    /\ UNCHANGED <<fsVars, file_path, watch, store, observer, stopped, stopCount,
                   events, wpc, fp, opsLeft, unsaved>>

\* join(timeout=5) ends when the observer thread has ended, or after five
\* seconds: the observer thread cannot end while it waits for the lock that
\* close() holds
\* join() without a timeout
JoinWithoutTimeout == wpc = "exited"

JoinReturns == wpc = "exited" \/ wpc = "w_lock"

\* close() that forgets to set self._observer to None
CloseJoinKeeping(t, op) ==
    /\ pc[t] = JoinPc(op)
    /\ JoinReturns
    /\ lock' = NoOne
    /\ pc' = [pc EXCEPT ![t] = "idle"]
    /\ Return(t, op, CloseResult(op))
    /\ UNCHANGED <<fsVars, file_path, watch, store, observer, stopped, stopCount,
                   events, wpc, fp, opsLeft, unsaved>>

\* ... self._observer.join(timeout=5); self._observer = None; lock released
CloseJoin(t, op) ==
    /\ pc[t] = JoinPc(op)
    /\ JoinReturns
    /\ observer' = NoOne
    /\ lock' = NoOne
    /\ pc' = [pc EXCEPT ![t] = "idle"]
    /\ Return(t, op, CloseResult(op))
    /\ UNCHANGED <<fsVars, file_path, watch, store, stopped, stopCount, events,
                   wpc, fp, opsLeft, unsaved>>

\* ------------------------------------------------------------------ Next
Environment ==
    \/ \E f \in Files : ExtTruncate(f)
    \/ \E f \in Files, txt \in ExtTexts : ExtWrite(f, txt)
    \/ Unlink
    \/ \E f \in Files : Symlink(f)

Removal == \E f \in Files : ExtDelete(f)

Elsewise ==
    \/ \E f \in Files, txt \in ExtTexts : ExtReplace(f, txt)
    \/ \E e \in OtherEvents : ExtOther(e)

Observer == WDispatch \/ WClear \/ WRead \/ WExit

Caller(t) ==
    \/ GetClear(t) \/ GetRead(t) \/ GetReturn(t)
    \/ \E v \in Values : SetOption(t, v)
    \/ WriteFp(t) \/ WriteOpen(t) \/ WriteOpenFails(t) \/ WriteDump(t)
    \/ \E op \in {"close", "exit"} :
          CloseEnter(t, op) \/ CloseStop(t, op) \/ CloseSkip(t, op) \/ CloseJoin(t, op)

\* the object in use: in-place edits and retargets, the observer thread,
\* and the callers
Next == Environment \/ Observer \/ \E t \in Threads : Caller(t)

Spec == Init /\ [][Next]_vars

\* a write() whose serialization to the file fails
Failure == \E t \in Threads : WriteDumpFails(t)

\* the object with no caller: the environment and the observer thread
WatchNext ==
    Environment \/ Removal \/ Elsewise \/ WDispatch \/ WClear \/ WRead

\* the constructor, and the object it leaves with no caller
NewSpec == Before /\ [][New \/ WatchNext]_vars

\* every step the model has
FullSpec == Init /\ [][Next \/ Removal \/ Elsewise \/ Failure]_vars

\* ================================================================ claims
\* what get(Section, Option) answers from the text file f holds now
FileAnswer(f) == Lookup(ReadFile(EmptyStore, disk[f]), Section, Option)

\* ... and what get(Section, Option, fallback=x) answers from it
FileGet(f, x) == ParserGet(ReadFile(EmptyStore, disk[f]), Section, Option, x)

\* no thread is between the clear and the re-read of _reload_from_disk
NoReloadInFlight == wpc # "w_read" /\ \A t \in Threads : pc[t] # "g_read"

\* the watcher has seen every change: nothing queued, nothing being handled
LatencyElapsed == events = <<>> /\ wpc = "idle" /\ ~stopped /\ editing = NoOne

\* C1: reload correctness. With the path still naming the file it named at
\* construction and no set() pending, a get() that returns while no reload
\* is in flight, and either began after the last change of the file system
\* or returns once the watcher has caught up, returns what the file holds.
C1_ReloadCorrectness ==
    [][\A t \in Threads :
          ( /\ GetReturn(t)
            /\ link = file_path
            /\ unsaved = NoOne
            /\ NoReloadInFlight
            /\ steady[t] \/ LatencyElapsed )
          => ret'.val = FileGet(link, ret'.fallback)]_vars

\* C1 witness: through a symlink, a get() has returned the value an external
\* writer put in the file after construction
C1_Witness ==
    /\ pathKind = "filelink" /\ link = "A"
    /\ envLeft < MaxEnv /\ editing = NoOne
    /\ disk["A"] = TextOf("v2")
    /\ ret.op = "get" /\ ret.val = "v2"

\* C2: symlink retarget. Where the path is a symlink to a file, a get() that
\* began after the last retarget and returns once the watcher has caught up
\* returns the value of the file the symlink points to now.
C2_SymlinkRetarget ==
    [][\A t \in Threads :
          ( /\ GetReturn(t)
            /\ pathKind = "filelink"
            /\ FileAnswer(file_path) \in Values
            /\ steady[t] /\ LatencyElapsed /\ NoReloadInFlight
            /\ unsaved = NoOne )
          => ret'.val = FileGet(link, ret'.fallback)]_vars

\* C3: symlinked directory retarget. Where the path goes through a symlinked
\* directory, a get() that began after the last retarget returns the value of
\* the file below the directory the symlink points to now, and the observer
\* watches that directory.
C3_SymlinkedDirRetarget ==
    [][\A t \in Threads :
          ( /\ GetReturn(t)
            /\ pathKind = "dirlink"
            /\ FileAnswer(file_path) \in Values
            /\ steady[t] /\ LatencyElapsed /\ NoReloadInFlight
            /\ unsaved = NoOne )
          => /\ ret'.val = FileGet(link, ret'.fallback)
             /\ watch = ParentOf(pathKind, link)]_vars

\* C4: snapshot atomicity. A get() during which the file held the option
\* all along returns a value: it never fails with a missing section or option.
C4_SnapshotAtomicity ==
    [][\A t \in Threads :
          ( /\ GetReturn(t)
            /\ steady[t]
            /\ FileAnswer(file_path) \in Values )
          => ret'.val \in Values]_vars

\* C5: in-memory contract. A thread whose set() succeeded and whose next call
\* is get(), with no change of the file in between, gets the value it set.
C5_SetThenGet ==
    [][\A t \in Threads :
          ( /\ GetReturn(t)
            /\ ret = Returned(t, "set", "None")
            /\ steady[t]
            /\ unsaved \in Values )
          => ret'.val = unsaved]_vars

\* C6: write durability. When the only call ever made, a write(fp), returns
\* and nobody else has changed the file system meanwhile, the configured file
\* holds the serialization write() gave to fp.
C6_WriteDurability ==
    [][\A t \in Threads :
          ( /\ WriteDump(t)
            /\ opsLeft = MaxOps - 1
            /\ steady[t] )
          => disk'[file_path] = fp[t]]_vars

\* the work the observer thread has before it: three units per queued event,
\* less what it has done of the event in hand
WatcherRank ==
    CASE wpc = "exited" -> 0
      [] wpc = "idle" -> 1
      [] wpc = "w_read" -> 2
      [] wpc = "w_lock" -> 3
PendingWork == 3 * Len(events) + WatcherRank

\* C7: no self-notification loop. No step of a reload (the observer's or
\* get's) changes a file or queues an event, every step of the observer
\* thread lessens the work before it, and write() queues at most one event
\* per change it makes to the file: the reloads a write causes are finitely
\* many and end with nothing pending.
C7_NoSelfNotification ==
    [][ /\ (Observer \/ \E t \in Threads : GetClear(t) \/ GetRead(t))
           => /\ disk' = disk
              /\ Len(events') <= Len(events)
        /\ Observer => PendingWork' < PendingWork
        /\ (\E t \in Threads : WriteOpen(t) \/ WriteDump(t))
           => Len(events') <= Len(events) + 1 ]_vars

\* C7 witness: the observer is reloading because of a write() of the object
\* itself (the environment has changed nothing)
C7_Witness ==
    /\ envLeft = MaxEnv
    /\ wpc = "w_read"
    /\ \E t \in Threads : pc[t] = "w_dump"

\* C8: close idempotence. stop() is called at most once; once any close() or
\* __exit__ has returned the observer is None and was stopped exactly once;
\* close() returns None and __exit__ returns False.
C8_CloseIdempotent ==
    /\ stopCount <= 1
    /\ observer = NoOne => stopCount = 1
    /\ ret.op \in {"close", "exit"} =>
          /\ observer = NoOne
          /\ stopCount = 1
          /\ ret.val = CloseResult(ret.op)

\* C8 witness: after a close() has returned, another thread is inside
\* __exit__ and finds no observer
C8_Witness ==
    /\ ret = Returned("t1", "close", "None")
    /\ pc["t2"] = "x_held"
    /\ observer = NoOne /\ stopCount = 1

C11_Fallback ==
    [][\A t \in Threads :
          ( /\ GetReturn(t)
            /\ FileAnswer(file_path) \in LookupErrors
            /\ steady[t]
            /\ unsaved = NoOne )
          => ret'.val = IF ret'.fallback = Unset THEN FileAnswer(file_path)
                        ELSE ret'.fallback]_vars

\* C11 witness: a get(..., fallback=None) on a file that holds no section
\* has returned None
C11_Witness ==
    /\ ret.op = "get" /\ ret.fallback = "None" /\ ret.val = "None"
    /\ disk[file_path] = EmptyText
    /\ editing = NoOne
    /\ store = EmptyStore

\* C12: missing file creation. __init__ on a path that names no file, in a
\* directory that exists and is writable, leaves a zero-length file at the
\* path, a store with no section, no error, and the observer running on the
\* parent directory of the path.
C12_MissingFileCreated ==
    [][(New /\ disk[link] = NoFile /\ parentDir = "writable")
       => /\ disk'[file_path'] = EmptyText
          /\ DOMAIN store' = {}
          /\ raised' = "none"
          /\ observer' = "obs" /\ wpc' = "idle" /\ ~stopped'
          /\ watch' = ParentOf(pathKind, file_path')]_vars

\* C12 witness: the object stands on a file that __init__ has created (no
\* one else has touched the file system yet)
C12_Witness ==
    /\ file_path = "A" /\ raised = "none"
    /\ envLeft = MaxEnv
    /\ disk["A"] = EmptyText
    /\ observer = "obs" /\ wpc = "idle"

\* C14: uncreatable file. __init__ on a path that names no file and where
\* none can be created (the parent directory is missing, or not writable)
\* raises an error; it returns no object.
C14_UncreatableFails ==
    [][(New /\ disk[link] = NoFile /\ parentDir # "writable")
       => raised' # "none"]_vars

\* C13: a failed reload keeps the snapshot. Two calls are made, both get();
\* the first returns the value the file holds; the file is then removed (the
\* only change of the file system); the second get(), begun after that,
\* finds the file missing at its reload and still returns that value.
C13_FailedReloadKeepsSnapshot ==
    [][\A t \in Threads :
          ( /\ GetReturn(t)
            /\ ret.op = "get" /\ ret.val \in Values
            /\ opsLeft = MaxOps - 2
            /\ envLeft = MaxEnv - 1
            /\ disk[file_path] = NoFile
            /\ steady[t] )
          => ret'.val = ret.val]_vars

\* C15: write is transactional with respect to reloads. No reload, the
\* observer's or a get()'s, reads the configured file while a write() is
\* between truncating it and writing it.
C15_WriteTransactional ==
    [][(WRead \/ \E t \in Threads : GetRead(t))
       => \A u \in Threads : pc[u] # "w_dump"]_vars

\* C16: write is all-or-nothing on failure. After a write(fp) that failed,
\* the only call made and with nothing changed by the environment, once the
\* observer has handled every change signal the store is what it was when
\* the call began: it serializes to what write() gave to fp.
C16_FailedWriteKeepsStore ==
    \A t \in Threads :
       ( /\ ret = Returned(t, "write", "OSError")
         /\ opsLeft = MaxOps - 1
         /\ envLeft = MaxEnv
         /\ events = <<>> /\ wpc = "idle" )
       => Serialize(store) = fp[t]

\* C17: events about something else are ignored. When the observer thread
\* dispatches an event that is about a directory, or about an entry that
\* does not resolve to the configured file, no reload begins and the store
\* stays as it is.
C17_OtherEventsIgnored ==
    [][( /\ WDispatch
         /\ \/ Head(events).is_directory
            \/ Resolve(Head(events).src) # file_path )
       => /\ wpc' = "idle"
          /\ store' = store]_vars

\* C17 witness: on a file that __init__ created, the one thing that has
\* happened is an event about another entry or the directory, and the
\* observer thread has dispatched it
C17_Witness ==
    /\ file_path = "A" /\ pathKind = "plain"
    /\ envLeft = MaxEnv - 1
    /\ disk["A"] = EmptyText /\ editing = NoOne
    /\ events = <<>> /\ wpc = "idle"
    /\ store = EmptyStore

\* C18: the watcher alone keeps the store in sync. With no call ever made,
\* once the observer thread has handled every event, the store is the parse
\* of the file the path names, however the file was changed.
C18_WatcherKeepsInSync ==
    ( /\ file_path # NoOne
      /\ opsLeft = MaxOps
      /\ LatencyElapsed
      /\ link = file_path
      /\ disk[file_path] # NoFile )
    => store = ReadFile(EmptyStore, disk[file_path])

\* the threads between the clear and the re-read of _reload_from_disk
Reloading ==
    {t \in Threads : pc[t] = "g_read"}
       \cup (IF wpc = "w_read" THEN {WatcherThread} ELSE {})

\* C19: reloads are serialized. At most one thread is between the clear and
\* the re-read of _reload_from_disk; that thread owns the lock and the store
\* it is about to read into is still the cleared one, so every reload ends
\* with the parse of the file as that reload read it.
C19_ReloadsSerialized ==
    /\ Cardinality(Reloading) <= 1
    /\ \A t \in Reloading : lock = t /\ store = EmptyStore

\* C19 witness: a get() is inside the section while the observer thread,
\* with an event in hand, waits for the lock
C19_Witness ==
    /\ wpc = "w_lock"
    /\ \E t \in Threads : pc[t] = "g_read" /\ lock = t

\* the steps of get() and of close() / __exit__ that follow the call
GetSteps(t) == GetRead(t) \/ GetReturn(t)
CloseSteps(t) ==
    \E op \in {"close", "exit"} :
       CloseStop(t, op) \/ CloseSkip(t, op) \/ CloseJoin(t, op)

\* the object with callers that only get() and close(), beside an external
\* writer and the observer thread
CloseNext ==
    \/ \E f \in Files : ExtTruncate(f)
    \/ \E f \in Files, txt \in ExtTexts : ExtWrite(f, txt)
    \/ Observer
    \/ \E t \in Threads :
          \/ GetClear(t) \/ GetSteps(t)
          \/ (\E op \in {"close", "exit"} : CloseEnter(t, op)) \/ CloseSteps(t)

\* ... where the threads are scheduled fairly: a thread that is inside a
\* call and can take its next step takes it, and a thread that waits for the
\* lock gets it if the lock is free again and again
CloseSpec ==
    /\ Init /\ [][CloseNext]_vars
    /\ WF_vars(WDispatch \/ WRead \/ WExit) /\ SF_vars(WClear)
    /\ \A t \in Threads : WF_vars(GetSteps(t) \/ CloseSteps(t))

ClosePcs == {HeldPc(op) : op \in {"close", "exit"}}
               \cup {JoinPc(op) : op \in {"close", "exit"}}

====
